---- MODULE Spec2Model ----
(***************************************************************************)
(* QPreferences: a RAM write-back cache over the ESP32 Preferences (NVS)   *)
(* store.  The model follows QPreferences.h as it stands after quick task  *)
(* 002 (get() opens the namespace read-write, set() marks dirty, save(key),*)
(* save(), factoryReset()), together with the CacheEntry that revision is  *)
(* compiled against: ValueVariant has the five alternatives                *)
(* int, int32_t, float, bool, String and CacheEntry::is_initialized() is   *)
(* nvs_value.has_value().                                                  *)
(*                                                                         *)
(* A program is a table of PrefKey declarations (decl).  The static state  *)
(* of the library is the registry (key_id, next_key_id, key_metadata) and  *)
(* cache_entries; the flash is nvs_ns (the namespaces that exist) and nvs  *)
(* (the typed entries).  Every public function is one action.              *)
(***************************************************************************)
EXTENDS Integers, Sequences, FiniteSets, TLC

VARIABLES decl, key_id, next_key_id, key_metadata, cache_entries,
          nvs_ns, nvs, last, written, committed

vars == <<decl, key_id, next_key_id, key_metadata, cache_entries,
          nvs_ns, nvs, last, written, committed>>

\* Largest payload of a non-boolean value (values are 0..MaxVal).
MaxVal == 1

\* QPREFERENCES_MAX_KEYS, here built with -DQPREFERENCES_MAX_KEYS=3.
MAX_KEYS == 3

\* static size_t id of get_key_id<KeyType> before its initialisation has run.
NoId == 0 - 1

\* What std::get<T> yields when the variant holds another alternative.
bad_variant_access == 0 - 2

---------------------------------------------------------------------------
(* Values *)

\* The alternatives of ValueVariant.
ValueVariant == {"int", "int32_t", "float", "bool", "String"}

Val(t, v) == [t |-> t, v |-> v]

\* std::nullopt of std::optional<ValueVariant>.
nullopt == [t |-> "nullopt", v |-> 0]

\* No entry under a key of the flash.
Absent == [t |-> "absent", v |-> 0]

Payloads(t) == IF t = "bool" THEN 0..1 ELSE 0..MaxVal

\* A value-initialised CacheEntry: the variant holds its first alternative.
CacheEntry == [value |-> Val("int", 0), nvs_value |-> nullopt, dirty |-> FALSE]

\* Variant: is_initialized() reads a flag that no function ever sets.
is_initialized_never_set(entry) == FALSE

is_initialized(entry) == entry.nvs_value # nullopt

\* Variant: every entry counts as dirty.
is_dirty_always(entry) == TRUE

is_dirty(entry) == entry.dirty

\* T current = std::get<T>(entry.value)
std_get(value, T) == IF value.t = T THEN value.v ELSE bad_variant_access

KeyMetadata == [namespace_name |-> "nullptr", key_name |-> "nullptr"]

---------------------------------------------------------------------------
(* Programs: the PrefKey declarations of a sketch *)

PrefKey(T, ns, key, default_value) ==
    [value_type |-> T, namespace_name |-> ns, key_name |-> key,
     default_value |-> default_value]

Programs ==
    { <<PrefKey("int", "test", "count", 0), PrefKey("bool", "test", "flag", 0)>>,
      <<PrefKey("int32_t", "test", "value", 1), PrefKey("String", "other", "name", 0)>>,
      <<PrefKey("float", "other", "gain", 0), PrefKey("int", "test", "count", 1)>> }

\* A sketch with two keys of one namespace declared around a key of another:
\* the order of first use decides whether the registry keeps them together.
GroupPrograms ==
    { <<PrefKey("bool", "ns1", "a", 0), PrefKey("int32_t", "ns2", "b", 0),
        PrefKey("bool", "ns1", "c", 1)>> }

\* A sketch that declares one key more than MAX_KEYS.
OverflowPrograms ==
    { <<PrefKey("bool", "test", "a", 0), PrefKey("bool", "test", "b", 1),
        PrefKey("bool", "other", "c", 0), PrefKey("bool", "other", "d", 1)>> }

Keys == 1..Len(decl)

Slot(ns, key) == <<ns, key>>

Slots == {Slot(decl[k].namespace_name, decl[k].key_name) : k \in Keys}

Namespaces == {decl[k].namespace_name : k \in Keys}

---------------------------------------------------------------------------
(* The machine state threaded through a call *)

Machine ==
    [key_id |-> key_id, next_key_id |-> next_key_id, key_metadata |-> key_metadata,
     cache_entries |-> cache_entries, nvs_ns |-> nvs_ns, nvs |-> nvs,
     prefs |-> [started |-> FALSE, ns |-> "nullptr", readOnly |-> FALSE],
     log |-> <<>>, ret |-> 0]

---------------------------------------------------------------------------
(* The Preferences object (store adapter) as the library uses it *)

\* The NVS entry type written by putInt / putFloat / putBool / putString.
NvsType(T) ==
    CASE T \in {"int", "int32_t"} -> "I32"
      [] T = "float" -> "BLOB"
      [] T = "bool" -> "U8"
      [] T = "String" -> "STR"

\* prefs.begin(ns, readOnly): read-write creates the namespace when it does
\* not exist, read-only fails on a namespace that does not exist.
prefs_begin(m, ns, readOnly, ok) ==
    LET opened == ok /\ ~m.prefs.started /\ (readOnly => ns \in m.nvs_ns)
    IN [m EXCEPT !.prefs = IF opened
                           THEN [started |-> TRUE, ns |-> ns, readOnly |-> readOnly]
                           ELSE @,
                 !.nvs_ns = IF opened THEN @ \cup {ns} ELSE @,
                 !.log = Append(@, <<"begin", ns, readOnly, opened>>)]

\* Variant: end() leaves the namespace open.
prefs_end_forgotten(m) == m

prefs_end(m) ==
    [m EXCEPT !.prefs = [started |-> FALSE, ns |-> "nullptr", readOnly |-> FALSE],
              !.log = IF m.prefs.started THEN Append(@, <<"end", m.prefs.ns>>) ELSE @]

\* Variant: the typed read never finds the key.
prefs_get_never_found(m, key, T, default_value) == default_value

\* prefs.getInt / getFloat / getBool / getString (key, default_value)
prefs_get(m, key, T, default_value) ==
    IF m.prefs.started /\ m.nvs[Slot(m.prefs.ns, key)].t = NvsType(T)
    THEN m.nvs[Slot(m.prefs.ns, key)].v
    ELSE default_value

\* prefs.putInt / putFloat / putBool / putString (key, value)
prefs_put(m, key, T, v, ok) ==
    LET done == ok /\ m.prefs.started /\ ~m.prefs.readOnly
    IN [m EXCEPT !.nvs = IF done
                         THEN [@ EXCEPT ![Slot(m.prefs.ns, key)] = Val(NvsType(T), v)]
                         ELSE @,
                 !.log = Append(@, <<"put", m.prefs.ns, key, done>>)]

\* prefs.remove(key)
prefs_remove(m, key) ==
    LET done == m.prefs.started /\ ~m.prefs.readOnly
    IN [m EXCEPT !.nvs = IF done
                         THEN [@ EXCEPT ![Slot(m.prefs.ns, key)] = Absent]
                         ELSE @,
                 !.log = Append(@, <<"remove", m.prefs.ns, key, done>>)]

\* Variant: clear() deletes nothing.
prefs_clear_nothing(m) ==
    [m EXCEPT !.log = Append(@, <<"clear", m.prefs.ns, FALSE>>)]

\* prefs.clear(): delete all keys of the open namespace
prefs_clear(m) ==
    LET done == m.prefs.started /\ ~m.prefs.readOnly
    IN [m EXCEPT !.nvs = IF done
                         THEN [s \in DOMAIN @ |-> IF s[1] = m.prefs.ns THEN Absent ELSE @[s]]
                         ELSE @,
                 !.log = Append(@, <<"clear", m.prefs.ns, done>>)]

---------------------------------------------------------------------------
(* Registry *)

\* Variant: past the capacity the counter is still advanced.
register_key_counts_on(m, ns, key) ==
    IF m.next_key_id >= MAX_KEYS
    THEN [m EXCEPT !.next_key_id = @ + 1, !.ret = MAX_KEYS - 1]
    ELSE [m EXCEPT !.next_key_id = @ + 1,
                   !.key_metadata[m.next_key_id] =
                       [namespace_name |-> ns, key_name |-> key],
                   !.ret = m.next_key_id]

\* register_key as compiled with NDEBUG (the assert is gone, the guard stays).
register_key(m, ns, key) ==
    IF m.next_key_id >= MAX_KEYS
    THEN [m EXCEPT !.ret = MAX_KEYS - 1]
    ELSE [m EXCEPT !.next_key_id = @ + 1,
                   !.key_metadata[m.next_key_id] =
                       [namespace_name |-> ns, key_name |-> key],
                   !.ret = m.next_key_id]

\* static size_t id = register_key(...): runs once per KeyType.
get_key_id(m, k) ==
    IF m.key_id[k] # NoId
    THEN [m EXCEPT !.ret = m.key_id[k]]
    ELSE LET r == register_key(m, decl[k].namespace_name, decl[k].key_name)
         IN [r EXCEPT !.key_id[k] = r.ret]

---------------------------------------------------------------------------
(* QPrefs *)

\* Variant: the typed read is given no default (a missing key reads as 0).
lazy_load_no_default(m, k, id, ok) ==
    LET T == decl[k].value_type
        m1 == prefs_begin(m, decl[k].namespace_name, FALSE, ok)
        nvs_result == Val(T, prefs_get(m1, decl[k].key_name, T, 0))
        m2 == prefs_end(m1)
    IN [m2 EXCEPT !.cache_entries[id] =
                      [value |-> nvs_result, nvs_value |-> nvs_result,
                       dirty |-> FALSE]]

\* The lazy initialisation of get(): open, typed read with the default, close,
\* then value = nvs_value = the result and dirty = false.
lazy_load(m, k, id, ok) ==
    LET T == decl[k].value_type
        m1 == prefs_begin(m, decl[k].namespace_name, FALSE, ok)
        nvs_result == Val(T, prefs_get(m1, decl[k].key_name, T,
                                       decl[k].default_value))
        m2 == prefs_end(m1)
    IN [m2 EXCEPT !.cache_entries[id] =
                      [value |-> nvs_result, nvs_value |-> nvs_result,
                       dirty |-> FALSE]]

\* Variant: get() loads from the flash on every call.
get_always_loads(m0, k, ok) ==
    LET T == decl[k].value_type
        m == get_key_id(m0, k)
        id == m.ret
        m1 == lazy_load(m, k, id, ok)
    IN [m1 EXCEPT !.ret = std_get(m1.cache_entries[id].value, T)]

get(m0, k, ok) ==
    LET T == decl[k].value_type
        m == get_key_id(m0, k)
        id == m.ret
        m1 == IF ~is_initialized(m.cache_entries[id])
              THEN lazy_load(m, k, id, ok)
              ELSE m
    IN [m1 EXCEPT !.ret = std_get(m1.cache_entries[id].value, T)]

\* Variant: set() writes the entry without loading it first.
set_without_load(m0, k, value, ok) ==
    LET T == decl[k].value_type
        m == get_key_id(m0, k)
        id == m.ret
    IN [m EXCEPT !.cache_entries[id].value = Val(T, value),
                 !.cache_entries[id].dirty = TRUE,
                 !.ret = 1]

\* Variant: set() marks the entry dirty only when the value differs from
\* what the flash held.
set_dirty_on_difference(m0, k, value, ok) ==
    LET T == decl[k].value_type
        m == get_key_id(m0, k)
        id == m.ret
        m1 == IF ~is_initialized(m.cache_entries[id]) THEN get(m, k, ok) ELSE m
    IN [m1 EXCEPT !.cache_entries[id].value = Val(T, value),
                  !.cache_entries[id].dirty =
                      (Val(T, value) # m1.cache_entries[id].nvs_value),
                  !.ret = 1]

set(m0, k, value, ok) ==
    LET T == decl[k].value_type
        m == get_key_id(m0, k)
        id == m.ret
        m1 == IF ~is_initialized(m.cache_entries[id]) THEN get(m, k, ok) ELSE m
    IN [m1 EXCEPT !.cache_entries[id].value = Val(T, value),
                  !.cache_entries[id].dirty = TRUE,
                  !.ret = 1]

\* Variant: isModified() compares the value with what the flash held.
isModified_against_nvs(m0, k, ok) ==
    LET m == get_key_id(m0, k)
        id == m.ret
        m1 == IF ~is_initialized(m.cache_entries[id]) THEN get(m, k, ok) ELSE m
    IN [m1 EXCEPT !.ret = IF m1.cache_entries[id].value # m1.cache_entries[id].nvs_value
                          THEN 1 ELSE 0]

isModified(m0, k, ok) ==
    LET T == decl[k].value_type
        m == get_key_id(m0, k)
        id == m.ret
        m1 == IF ~is_initialized(m.cache_entries[id]) THEN get(m, k, ok) ELSE m
        current == std_get(m1.cache_entries[id].value, T)
    IN [m1 EXCEPT !.ret = IF current # decl[k].default_value THEN 1 ELSE 0]

isDirty(m0, k, ok) ==
    LET m == get_key_id(m0, k)
        id == m.ret
        m1 == IF ~is_initialized(m.cache_entries[id]) THEN get(m, k, ok) ELSE m
    IN [m1 EXCEPT !.ret = IF is_dirty(m1.cache_entries[id]) THEN 1 ELSE 0]

\* Variant: the remove branch keeps nvs_value.
save_key_remove_keeps_nvs(m, id, meta) == prefs_remove(m, meta.key_name)

\* save(key), value equal to the default: remove the key, forget nvs_value.
save_key_remove(m, id, meta) ==
    [prefs_remove(m, meta.key_name) EXCEPT !.cache_entries[id].nvs_value = nullopt]

\* Variant: the write branch does not record what it wrote.
save_key_write_unrecorded(m, id, meta, T, current, putOk) ==
    prefs_put(m, meta.key_name, T, current, putOk)

\* save(key), value different from the default: typed put, nvs_value = value.
save_key_write(m, id, meta, T, current, putOk) ==
    [prefs_put(m, meta.key_name, T, current, putOk)
        EXCEPT !.cache_entries[id].nvs_value = m.cache_entries[id].value]

\* Variant: the dirty flag is left set.
save_key_end_keeps_dirty(m, id) == prefs_end(m)

\* save(key): prefs.end(); entry.dirty = false;
save_key_end(m, id) ==
    [prefs_end(m) EXCEPT !.cache_entries[id].dirty = FALSE]

\* Variant: save(key) does not look at the dirty flag.
save_key_ignores_dirty(m0, k, openOk, putOk) ==
    LET T == decl[k].value_type
        m == get_key_id(get_key_id(m0, k), k)
        id == m.ret
        entry == m.cache_entries[id]
        meta == m.key_metadata[id]
    IN IF ~is_initialized(entry)
       THEN m
       ELSE LET m1 == prefs_begin(m, meta.namespace_name, FALSE, openOk)
                current == std_get(entry.value, T)
                m2 == IF current = decl[k].default_value
                      THEN save_key_remove(m1, id, meta)
                      ELSE save_key_write(m1, id, meta, T, current, putOk)
            IN save_key_end(m2, id)

\* Per-key commit: save(const KeyType& key)
save_key(m0, k, openOk, putOk) ==
    LET T == decl[k].value_type
        m == get_key_id(get_key_id(m0, k), k)
        id == m.ret
        entry == m.cache_entries[id]
        meta == m.key_metadata[id]
    IN IF ~is_initialized(entry) \/ ~is_dirty(entry)
       THEN m
       ELSE LET m1 == prefs_begin(m, meta.namespace_name, FALSE, openOk)
                current == std_get(entry.value, T)
                m2 == IF current = decl[k].default_value
                      THEN save_key_remove(m1, id, meta)
                      ELSE save_key_write(m1, id, meta, T, current, putOk)
            IN save_key_end(m2, id)

\* The std::visit of save(): one branch per alternative it names.
save_visit(m, i, putOk) ==
    LET entry == m.cache_entries[i]
        meta == m.key_metadata[i]
        T == entry.value.t
    IN IF T \in {"int32_t", "float", "bool", "String"}
       THEN [prefs_put(m, meta.key_name, T, entry.value.v, putOk)
                EXCEPT !.cache_entries[i].nvs_value = entry.value]
       ELSE m

RECURSIVE save_loop(_, _, _, _, _)
save_loop(m, i, current_namespace, openOk, putOk) ==
    IF i >= MAX_KEYS
    THEN IF current_namespace # "nullptr" THEN prefs_end(m) ELSE m
    ELSE LET entry == m.cache_entries[i]
             meta == m.key_metadata[i]
         IN IF ~is_initialized(entry) \/ ~is_dirty(entry)
            THEN save_loop(m, i + 1, current_namespace, openOk, putOk)
            ELSE LET switch == current_namespace = "nullptr"
                               \/ current_namespace # meta.namespace_name
                     m1 == IF switch
                           THEN prefs_begin(IF current_namespace # "nullptr"
                                            THEN prefs_end(m) ELSE m,
                                            meta.namespace_name, FALSE, openOk)
                           ELSE m
                     m2 == save_visit(m1, i, putOk)
                     m3 == [m2 EXCEPT !.cache_entries[i].dirty = FALSE]
                 IN save_loop(m3, i + 1, meta.namespace_name, openOk, putOk)

\* Variant: save() opens the namespace of the first dirty entry and never
\* switches.
RECURSIVE save_single_session_loop(_, _, _, _, _)
save_single_session_loop(m, i, current_namespace, openOk, putOk) ==
    IF i >= MAX_KEYS
    THEN IF current_namespace # "nullptr" THEN prefs_end(m) ELSE m
    ELSE LET entry == m.cache_entries[i]
             meta == m.key_metadata[i]
         IN IF ~is_initialized(entry) \/ ~is_dirty(entry)
            THEN save_single_session_loop(m, i + 1, current_namespace, openOk, putOk)
            ELSE LET m1 == IF current_namespace = "nullptr"
                           THEN prefs_begin(m, meta.namespace_name, FALSE, openOk)
                           ELSE m
                     m2 == save_visit(m1, i, putOk)
                     m3 == [m2 EXCEPT !.cache_entries[i].dirty = FALSE]
                 IN save_single_session_loop(m3, i + 1, m3.prefs.ns, openOk, putOk)

save_single_session(m, openOk, putOk) ==
    save_single_session_loop(m, 0, "nullptr", openOk, putOk)

\* Variant: save() walks the array from the last entry to the first.
RECURSIVE save_backwards_loop(_, _, _, _, _)
save_backwards_loop(m, i, current_namespace, openOk, putOk) ==
    IF i < 0
    THEN IF current_namespace # "nullptr" THEN prefs_end(m) ELSE m
    ELSE LET entry == m.cache_entries[i]
             meta == m.key_metadata[i]
         IN IF ~is_initialized(entry) \/ ~is_dirty(entry)
            THEN save_backwards_loop(m, i - 1, current_namespace, openOk, putOk)
            ELSE LET switch == current_namespace = "nullptr"
                               \/ current_namespace # meta.namespace_name
                     m1 == IF switch
                           THEN prefs_begin(IF current_namespace # "nullptr"
                                            THEN prefs_end(m) ELSE m,
                                            meta.namespace_name, FALSE, openOk)
                           ELSE m
                     m2 == save_visit(m1, i, putOk)
                     m3 == [m2 EXCEPT !.cache_entries[i].dirty = FALSE]
                 IN save_backwards_loop(m3, i - 1, meta.namespace_name, openOk, putOk)

save_backwards(m, openOk, putOk) ==
    save_backwards_loop(m, MAX_KEYS - 1, "nullptr", openOk, putOk)

\* Variant: save() opens and closes the namespace around every key it writes.
RECURSIVE save_ungrouped_loop(_, _, _, _)
save_ungrouped_loop(m, i, openOk, putOk) ==
    IF i >= MAX_KEYS
    THEN m
    ELSE LET entry == m.cache_entries[i]
             meta == m.key_metadata[i]
         IN IF ~is_initialized(entry) \/ ~is_dirty(entry)
            THEN save_ungrouped_loop(m, i + 1, openOk, putOk)
            ELSE LET m1 == prefs_begin(m, meta.namespace_name, FALSE, openOk)
                     m2 == save_visit(m1, i, putOk)
                     m3 == [m2 EXCEPT !.cache_entries[i].dirty = FALSE]
                 IN save_ungrouped_loop(prefs_end(m3), i + 1, openOk, putOk)

save_ungrouped(m, openOk, putOk) == save_ungrouped_loop(m, 0, openOk, putOk)

\* Batch commit: save()
save(m, openOk, putOk) == save_loop(m, 0, "nullptr", openOk, putOk)

RECURSIVE factoryReset_loop(_, _, _, _)
factoryReset_loop(m, i, last_ns, openOk) ==
    IF i >= m.next_key_id
    THEN IF last_ns # "nullptr" THEN prefs_end(m) ELSE m
    ELSE LET meta == m.key_metadata[i]
             switch == last_ns = "nullptr" \/ last_ns # meta.namespace_name
             m1 == IF switch
                   THEN prefs_clear(prefs_begin(IF last_ns # "nullptr"
                                                THEN prefs_end(m) ELSE m,
                                                meta.namespace_name, FALSE, openOk))
                   ELSE m
             m2 == [m1 EXCEPT !.cache_entries[i].nvs_value = nullopt,
                              !.cache_entries[i].dirty = FALSE]
         IN factoryReset_loop(m2, i + 1, meta.namespace_name, openOk)

\* Variant: the loop of factoryReset() starts at the second registered key.
factoryReset_from_second(m, openOk) == factoryReset_loop(m, 1, "nullptr", openOk)

factoryReset(m, openOk) == factoryReset_loop(m, 0, "nullptr", openOk)

\* QPreferences::PrefInfo info{namespace_name, key_name, i, is_initialized, is_dirty}
PrefInfo(m, i) ==
    [namespace_name |-> m.key_metadata[i].namespace_name,
     key_name |-> m.key_metadata[i].key_name,
     index |-> i,
     is_initialized |-> is_initialized(m.cache_entries[i]),
     is_dirty |-> is_dirty(m.cache_entries[i])]

\* The loop of forEach(): calls is the sequence of callback invocations.
RECURSIVE forEach_loop(_, _, _)
forEach_loop(m, i, calls) ==
    IF i >= m.next_key_id
    THEN [m EXCEPT !.ret = calls]
    ELSE forEach_loop(m, i + 1, Append(calls, PrefInfo(m, i)))

\* Variant: forEach() walks the whole array, not only the registered part.
forEach_whole_array(m) ==
    [m EXCEPT !.ret = [i \in 1..MAX_KEYS |-> PrefInfo(m, i - 1)]]

forEach(m) == forEach_loop(m, 0, <<>>)

RECURSIVE forEachInNamespace_loop(_, _, _, _)
forEachInNamespace_loop(m, ns, i, calls) ==
    IF i >= m.next_key_id
    THEN [m EXCEPT !.ret = calls]
    ELSE forEachInNamespace_loop(m, ns, i + 1,
             IF m.key_metadata[i].namespace_name = ns
             THEN Append(calls, PrefInfo(m, i))
             ELSE calls)

\* Variant: the namespace argument is not compared.
forEachInNamespace_unfiltered(m, ns) == forEach_loop(m, 0, <<>>)

forEachInNamespace(m, ns) == forEachInNamespace_loop(m, ns, 0, <<>>)

---------------------------------------------------------------------------
(* Actions: one per public function, plus the reboot of the device *)

\* Registry indexes of the entries a commit would write.
DirtyIds(m) ==
    {i \in 0..(MAX_KEYS - 1) :
        is_initialized(m.cache_entries[i]) /\ is_dirty(m.cache_entries[i])}

\* The call just made: its arguments, its result, the store traffic it caused
\* and the state it started from.
Op(op, k, v, m) ==
    [op |-> op, k |-> k, v |-> v, ret |-> m.ret, log |-> m.log,
     pre |-> [key_id |-> key_id, cache_entries |-> cache_entries,
              nvs_ns |-> nvs_ns, nvs |-> nvs]]

\* History: what a commit of key k leaves to be found after a power cycle.
\* A commit of a dirty entry last set to a value other than the default
\* records that value; a commit of a dirty entry holding the default records
\* nothing; a commit that skips the key keeps what was recorded.
Committed(k, old) ==
    IF key_id[k] \in DirtyIds(Machine)
    THEN IF written[k] # nullopt /\ written[k].v # decl[k].default_value
         THEN written[k]
         ELSE nullopt
    ELSE old

Commit(m) ==
    /\ key_id' = m.key_id
    /\ next_key_id' = m.next_key_id
    /\ key_metadata' = m.key_metadata
    /\ cache_entries' = m.cache_entries
    /\ nvs_ns' = m.nvs_ns
    /\ nvs' = m.nvs
    /\ UNCHANGED decl

Init ==
    /\ decl \in Programs
    /\ key_id = [k \in 1..Len(decl) |-> NoId]
    /\ next_key_id = 0
    /\ key_metadata = [i \in 0..(MAX_KEYS - 1) |-> KeyMetadata]
    /\ cache_entries = [i \in 0..(MAX_KEYS - 1) |-> CacheEntry]
    /\ nvs_ns = {}
    /\ nvs = [s \in {Slot(decl[k].namespace_name, decl[k].key_name) : k \in 1..Len(decl)}
                 |-> Absent]
    /\ last = Op("boot", 0, 0, [ret |-> 0, log |-> <<>>])
    /\ written = [k \in 1..Len(decl) |-> nullopt]
    /\ committed = [k \in 1..Len(decl) |-> nullopt]

Get(k) ==
    LET m == get(Machine, k, TRUE)
    IN /\ Commit(m)
       /\ last' = Op("get", k, 0, m)
       /\ UNCHANGED <<written, committed>>

Set(k, v) ==
    LET m == set(Machine, k, v, TRUE)
    IN /\ Commit(m)
       /\ last' = Op("set", k, v, m)
       /\ written' = [written EXCEPT ![k] = Val(decl[k].value_type, v)]
       /\ committed' = [committed EXCEPT ![k] = nullopt]

IsModified(k) ==
    LET m == isModified(Machine, k, TRUE)
    IN /\ Commit(m)
       /\ last' = Op("isModified", k, 0, m)
       /\ UNCHANGED <<written, committed>>

IsDirty(k) ==
    LET m == isDirty(Machine, k, TRUE)
    IN /\ Commit(m)
       /\ last' = Op("isDirty", k, 0, m)
       /\ UNCHANGED <<written, committed>>

SaveKey(k) ==
    LET m == save_key(Machine, k, TRUE, TRUE)
    IN /\ Commit(m)
       /\ last' = Op("save_key", k, 0, m)
       /\ committed' = [committed EXCEPT ![k] = Committed(k, @)]
       /\ UNCHANGED written

Save ==
    LET m == save(Machine, TRUE, TRUE)
    IN /\ Commit(m)
       /\ last' = Op("save", 0, 0, m)
       /\ committed' = [k \in Keys |-> Committed(k, committed[k])]
       /\ UNCHANGED written

FactoryReset ==
    LET m == factoryReset(Machine, TRUE)
    IN /\ Commit(m)
       /\ last' = Op("factoryReset", 0, 0, m)
       /\ written' = [k \in Keys |-> nullopt]
       /\ committed' = [k \in Keys |-> nullopt]

\* The namespace arguments tried: those of the sketch and one that is the
\* beginning of a declared namespace without being one.
NamespaceArgs == Namespaces \cup {"te"}

ForEach ==
    LET m == forEach(Machine)
    IN /\ Commit(m)
       /\ last' = Op("forEach", 0, 0, m)
       /\ UNCHANGED <<written, committed>>

ForEachInNamespace(ns) ==
    LET m == forEachInNamespace(Machine, ns)
    IN /\ Commit(m)
       /\ last' = Op("forEachInNamespace", 0, ns, m)
       /\ UNCHANGED <<written, committed>>

\* Power cycle: every static object is value-initialised again, the flash is kept.
Reboot ==
    /\ key_id' = [k \in Keys |-> NoId]
    /\ next_key_id' = 0
    /\ key_metadata' = [i \in 0..(MAX_KEYS - 1) |-> KeyMetadata]
    /\ cache_entries' = [i \in 0..(MAX_KEYS - 1) |-> CacheEntry]
    /\ last' = Op("reboot", 0, 0, [ret |-> 0, log |-> <<>>])
    /\ written' = [k \in Keys |-> nullopt]
    /\ UNCHANGED <<decl, nvs_ns, nvs, committed>>

Next ==
    \/ \E k \in Keys : Get(k)
    \/ \E k \in Keys : \E v \in Payloads(decl[k].value_type) : Set(k, v)
    \/ \E k \in Keys : IsModified(k)
    \/ \E k \in Keys : IsDirty(k)
    \/ \E k \in Keys : SaveKey(k)
    \/ Save
    \/ FactoryReset
    \/ ForEach
    \/ \E ns \in NamespaceArgs : ForEachInNamespace(ns)
    \/ Reboot

Spec == Init /\ [][Next]_vars

\* The three-key sketch between two power cycles: reads, writes, both commits.
InitGroups ==
    /\ decl \in GroupPrograms
    /\ key_id = [k \in 1..Len(decl) |-> NoId]
    /\ next_key_id = 0
    /\ key_metadata = [i \in 0..(MAX_KEYS - 1) |-> KeyMetadata]
    /\ cache_entries = [i \in 0..(MAX_KEYS - 1) |-> CacheEntry]
    /\ nvs_ns = {}
    /\ nvs = [s \in {Slot(decl[k].namespace_name, decl[k].key_name) : k \in 1..Len(decl)}
                 |-> Absent]
    /\ last = Op("boot", 0, 0, [ret |-> 0, log |-> <<>>])
    /\ written = [k \in 1..Len(decl) |-> nullopt]
    /\ committed = [k \in 1..Len(decl) |-> nullopt]

NextGroups ==
    \/ \E k \in Keys : Get(k)
    \/ \E k \in Keys : \E v \in Payloads(decl[k].value_type) : Set(k, v)
    \/ \E k \in Keys : SaveKey(k)
    \/ Save

SpecGroups == InitGroups /\ [][NextGroups]_vars

\* The sketch with more keys than MAX_KEYS, between two power cycles and
\* without commits: every call registers the key it is given at its first use.
InitOverflow ==
    /\ decl \in OverflowPrograms
    /\ key_id = [k \in 1..Len(decl) |-> NoId]
    /\ next_key_id = 0
    /\ key_metadata = [i \in 0..(MAX_KEYS - 1) |-> KeyMetadata]
    /\ cache_entries = [i \in 0..(MAX_KEYS - 1) |-> CacheEntry]
    /\ nvs_ns = {}
    /\ nvs = [s \in {Slot(decl[k].namespace_name, decl[k].key_name) : k \in 1..Len(decl)}
                 |-> Absent]
    /\ last = Op("boot", 0, 0, [ret |-> 0, log |-> <<>>])
    /\ written = [k \in 1..Len(decl) |-> nullopt]
    /\ committed = [k \in 1..Len(decl) |-> nullopt]

NextOverflow ==
    \/ \E k \in Keys : Get(k)
    \/ \E k \in Keys : \E v \in Payloads(decl[k].value_type) : Set(k, v)
    \/ \E k \in Keys : IsModified(k)
    \/ \E k \in Keys : IsDirty(k)

SpecOverflow == InitOverflow /\ [][NextOverflow]_vars

\* A commit during which prefs.begin(ns, false) returns false (the NVS
\* partition cannot be opened for writing); the library does not look at
\* the result.
SaveKeyOpenFails(k) ==
    LET m == save_key(Machine, k, FALSE, TRUE)
    IN /\ Commit(m)
       /\ last' = Op("save_key", k, 0, m)
       /\ UNCHANGED <<written, committed>>

SaveOpenFails ==
    LET m == save(Machine, FALSE, TRUE)
    IN /\ Commit(m)
       /\ last' = Op("save", 0, 0, m)
       /\ UNCHANGED <<written, committed>>

\* A commit during which the typed put returns 0 (nothing written: the
\* partition is full); the library does not look at the result.
SaveKeyPutFails(k) ==
    LET m == save_key(Machine, k, TRUE, FALSE)
    IN /\ Commit(m)
       /\ last' = Op("save_key", k, 0, m)
       /\ UNCHANGED <<written, committed>>

SavePutFails ==
    LET m == save(Machine, TRUE, FALSE)
    IN /\ Commit(m)
       /\ last' = Op("save", 0, 0, m)
       /\ UNCHANGED <<written, committed>>

NextFault ==
    \/ Next
    \/ \E k \in Keys : SaveKeyOpenFails(k)
    \/ SaveOpenFails
    \/ \E k \in Keys : SaveKeyPutFails(k)
    \/ SavePutFails

\* The two-key sketches on a device whose write opens and puts may fail.
SpecFault == Init /\ [][NextFault]_vars

TypeOK ==
    /\ decl \in Programs
    /\ next_key_id \in 0..MAX_KEYS
    /\ \A k \in Keys : key_id[k] \in {NoId} \cup 0..(MAX_KEYS - 1)
    /\ \A i \in 0..(MAX_KEYS - 1) : cache_entries[i].dirty \in BOOLEAN

---------------------------------------------------------------------------
(* Properties *)

\* The cache entry of declared key k (k has been used, so it has an index).
EntryOf(k) == cache_entries[key_id[k]]

\* The flash slot of declared key k.
SlotOf(k) == Slot(decl[k].namespace_name, decl[k].key_name)

\* The flash entry that holds payload v for a key of type T.
Stored(T, v) == Val(NvsType(T), v)

\* Key k was registered, initialized and dirty when the last call started.
WasDirty(k) ==
    /\ last.pre.key_id[k] # NoId
    /\ is_initialized(last.pre.cache_entries[last.pre.key_id[k]])
    /\ is_dirty(last.pre.cache_entries[last.pre.key_id[k]])

\* The last call was a commit that covers key k.
CommitOf(k) == last.op = "save" \/ (last.op = "save_key" /\ last.k = k)

\* The last call changed nothing in the flash.
StoreUntouched == nvs = last.pre.nvs /\ nvs_ns = last.pre.nvs_ns

\* C1: read-your-writes. A get(k) returns the value of the latest set(k, v)
\* made since the last factory reset, whatever was committed in between.
C1_ReadYourWrites ==
    (last.op = "get" /\ written[last.k] # nullopt)
        => last.ret = written[last.k].v

\* C1 witness: a get of a key that was set to a value other than its default
\* and then committed (the entry is clean again) returns the value set.
C1_Witness ==
    /\ last.op = "get"
    /\ written[last.k] # nullopt
    /\ written[last.k].v # decl[last.k].default_value
    /\ ~is_dirty(EntryOf(last.k))
    /\ last.ret = written[last.k].v

\* C2: after set(k, v) the dirty flag equals (v # baseline), the baseline being
\* the persisted value when there is one and the default otherwise.
C2_DirtyIsDifference ==
    last.op = "set" =>
        LET entry == EntryOf(last.k)
            baseline == IF entry.nvs_value # nullopt
                        THEN entry.nvs_value.v
                        ELSE decl[last.k].default_value
        IN is_dirty(entry) = (last.v # baseline)

\* C3: set never modifies the store (namespaces and key/value pairs).
C3_SetLeavesStore == last.op = "set" => StoreUntouched

\* C4: a commit (per key or batch) of an initialized dirty key leaves
\* isDirty(key) false.
C4_CommitClearsDirty ==
    \A k \in Keys :
        (CommitOf(k) /\ WasDirty(k)) => isDirty(Machine, k, TRUE).ret = 0

\* C4 witness: save(key) has just committed a key that was dirty.
C4_Witness ==
    /\ last.op = "save_key"
    /\ WasDirty(last.k)
    /\ isDirty(Machine, last.k, TRUE).ret = 0

\* C5: a value other than the default that was set and then committed (per
\* key or batch) is what the first get after a power cycle returns, for every
\* value type.
C5_RoundTrip ==
    (last.op = "get" /\ ~is_initialized(last.pre.cache_entries[key_id[last.k]])
        /\ committed[last.k] # nullopt)
        => last.ret = committed[last.k].v

\* C6: after save(), every entry that was initialized and dirty is in the
\* flash with its current value, and its nvs_value is that value.
C6_BatchWritesAll ==
    last.op = "save" =>
        \A k \in Keys :
            WasDirty(k) =>
                /\ nvs[SlotOf(k)] = Stored(decl[k].value_type, EntryOf(k).value.v)
                /\ EntryOf(k).nvs_value = EntryOf(k).value

\* C7: save(key) of a dirty key whose value is the default removes the key
\* and empties nvs_value, and a fresh load that follows returns the default
\* with nvs_value still empty.
C7_DefaultElision ==
    (last.op = "save_key" /\ WasDirty(last.k)
        /\ last.pre.cache_entries[key_id[last.k]].value.v = decl[last.k].default_value)
        => /\ nvs[SlotOf(last.k)] = Absent
           /\ EntryOf(last.k).nvs_value = nullopt
           /\ ~is_dirty(EntryOf(last.k))
           /\ LET m == get(Machine, last.k, TRUE)
              IN /\ m.ret = decl[last.k].default_value
                 /\ m.cache_entries[key_id[last.k]].nvs_value = nullopt

\* C8: save(key) of a dirty key whose value differs from the default writes
\* that value under the key's namespace and name, and nvs_value becomes it.
C8_SaveKeyWrites ==
    (last.op = "save_key" /\ WasDirty(last.k)
        /\ last.pre.cache_entries[key_id[last.k]].value.v # decl[last.k].default_value)
        => LET current == last.pre.cache_entries[key_id[last.k]].value
           IN /\ nvs[SlotOf(last.k)] = Stored(decl[last.k].value_type, current.v)
              /\ EntryOf(last.k).nvs_value = current
              /\ \A s \in Slots \ {SlotOf(last.k)} : nvs[s] = last.pre.nvs[s]

\* C8 witness: save(key) has just written a value other than the default.
C8_Witness ==
    /\ last.op = "save_key"
    /\ WasDirty(last.k)
    /\ EntryOf(last.k).value.v # decl[last.k].default_value
    /\ nvs[SlotOf(last.k)] = Stored(decl[last.k].value_type, EntryOf(last.k).value.v)
    /\ last.pre.nvs[SlotOf(last.k)] # nvs[SlotOf(last.k)]

\* C9: on an empty store (no namespace exists) the first read of a key
\* returns its declared default, and isDirty and isModified are then false.
C9_FreshDefault ==
    (last.op = "get" /\ last.pre.nvs_ns = {})
        => /\ last.ret = decl[last.k].default_value
           /\ isDirty(Machine, last.k, TRUE).ret = 0
           /\ isModified(Machine, last.k, TRUE).ret = 0

\* C9 witness: a key whose default is not 0 has been read on an empty store.
C9_Witness ==
    /\ last.op = "get"
    /\ last.pre.nvs_ns = {}
    /\ decl[last.k].default_value # 0
    /\ last.ret = decl[last.k].default_value

\* C10: get, isDirty and isModified leave the store unchanged; a lazy load
\* does not create the key's namespace.
C10_ReadsLeaveStore ==
    last.op \in {"get", "isDirty", "isModified"} => StoreUntouched

\* The entry that key k had when the last call started (a key not yet
\* registered gets the next, value-initialised, entry).
PreEntryOf(k) == last.pre.cache_entries[key_id[k]]

\* The machine as it was when the last call started.
PreMachine ==
    [Machine EXCEPT !.key_id = last.pre.key_id,
                    !.cache_entries = last.pre.cache_entries,
                    !.nvs_ns = last.pre.nvs_ns, !.nvs = last.pre.nvs]

\* Number of events of one kind in the store traffic of a call.
Count(log, kind) == Cardinality({i \in DOMAIN log : log[i][1] = kind})

\* C11: load idempotence. A second get(k) right after a get(k) returns the
\* same value, the two calls together open the store at most once, and a
\* get of an initialized key causes no store traffic at all; a call other
\* than set and factoryReset does not change what get returns for any key.
C11_LoadIdempotence ==
    /\ last.op = "get" =>
           LET m == get(Machine, last.k, TRUE)
           IN /\ m.ret = last.ret
              /\ Count(last.log, "begin") + Count(m.log, "begin") <= 1
              /\ m.log = <<>>
              /\ is_initialized(PreEntryOf(last.k))
                     => (last.log = <<>> /\ last.ret = PreEntryOf(last.k).value.v)
    /\ last.op \in {"get", "isDirty", "isModified", "save_key", "save"} =>
           \A k \in Keys :
               last.pre.key_id[k] # NoId =>
                   get(Machine, k, TRUE).ret = get(PreMachine, k, TRUE).ret

\* C11 witness: the first get loaded a stored value with one open, and a
\* second get returns it without store traffic.
C11_Witness ==
    /\ last.op = "get"
    /\ ~is_initialized(PreEntryOf(last.k))
    /\ last.pre.nvs[SlotOf(last.k)] # Absent
    /\ Count(last.log, "begin") = 1
    /\ get(Machine, last.k, TRUE).log = <<>>
    /\ get(Machine, last.k, TRUE).ret = last.pre.nvs[SlotOf(last.k)].v

\* C12: a get of an uninitialized key whose flash slot holds s leaves
\* value = s, nvs_value = s, the entry initialized and clean, and returns s.
C12_LoadStored ==
    (last.op = "get" /\ ~is_initialized(PreEntryOf(last.k))
        /\ last.pre.nvs[SlotOf(last.k)] # Absent)
        => LET s == Val(decl[last.k].value_type, last.pre.nvs[SlotOf(last.k)].v)
           IN /\ EntryOf(last.k).value = s
              /\ EntryOf(last.k).nvs_value = s
              /\ is_initialized(EntryOf(last.k))
              /\ ~is_dirty(EntryOf(last.k))
              /\ last.ret = s.v

\* C12 witness: a get has loaded a stored value other than the default.
C12_Witness ==
    /\ last.op = "get"
    /\ ~is_initialized(PreEntryOf(last.k))
    /\ last.pre.nvs[SlotOf(last.k)] # Absent
    /\ last.pre.nvs[SlotOf(last.k)].v # decl[last.k].default_value
    /\ last.ret = last.pre.nvs[SlotOf(last.k)].v

\* C13: a get of an uninitialized key that is not in the flash (its
\* namespace missing, or present without the key) leaves value = default,
\* nvs_value empty, the entry initialized and clean, and returns the default.
C13_LoadAbsent ==
    (last.op = "get" /\ ~is_initialized(PreEntryOf(last.k))
        /\ last.pre.nvs[SlotOf(last.k)] = Absent)
        => /\ EntryOf(last.k).value.v = decl[last.k].default_value
           /\ EntryOf(last.k).nvs_value = nullopt
           /\ ~is_dirty(EntryOf(last.k))
           /\ last.ret = decl[last.k].default_value

\* C14: save(key) of a key that is uninitialized or not dirty opens no
\* namespace, leaves the flash as it was and leaves every cache entry as it
\* was.
C14_SaveKeyNoOp ==
    (last.op = "save_key"
        /\ (~is_initialized(PreEntryOf(last.k)) \/ ~PreEntryOf(last.k).dirty))
        => /\ last.log = <<>>
           /\ StoreUntouched
           /\ cache_entries = last.pre.cache_entries

\* C14 witness: save(key) of an initialized clean key whose value is in the
\* flash, and the call did nothing.
C14_Witness ==
    /\ last.op = "save_key"
    /\ is_initialized(PreEntryOf(last.k))
    /\ ~PreEntryOf(last.k).dirty
    /\ nvs[SlotOf(last.k)] # Absent
    /\ last.log = <<>>
    /\ EntryOf(last.k) = PreEntryOf(last.k)

\* C15: save() leaves alone every entry that was uninitialized or not
\* dirty when it started: its cache entry is the same afterwards, and so is
\* the flash slot of its key.
C15_BatchOnlyDirty ==
    last.op = "save" =>
        /\ \A i \in 0..(MAX_KEYS - 1) :
               (~is_initialized(last.pre.cache_entries[i])
                    \/ ~last.pre.cache_entries[i].dirty)
                   => cache_entries[i] = last.pre.cache_entries[i]
        /\ \A k \in Keys :
               (last.pre.key_id[k] = NoId
                    \/ ~is_initialized(last.pre.cache_entries[last.pre.key_id[k]])
                    \/ ~last.pre.cache_entries[last.pre.key_id[k]].dirty)
                   => nvs[SlotOf(k)] = last.pre.nvs[SlotOf(k)]

\* C15 witness: save() wrote one key and left a clean initialized key of the
\* same program alone.
C15_Witness ==
    /\ last.op = "save"
    /\ \E k \in Keys : WasDirty(k) /\ nvs[SlotOf(k)] # last.pre.nvs[SlotOf(k)]
    /\ \E k \in Keys :
           /\ last.pre.key_id[k] # NoId
           /\ is_initialized(PreEntryOf(k))
           /\ ~PreEntryOf(k).dirty
           /\ EntryOf(k) = PreEntryOf(k)
           /\ nvs[SlotOf(k)] = last.pre.nvs[SlotOf(k)]

\* The namespaces of the entries that were initialized and dirty when the
\* last call started.
DirtyNamespaces ==
    {key_metadata[i].namespace_name : i \in DirtyIds(PreMachine)}

\* The registry holds the keys of every namespace next to each other.
RegisteredContiguously ==
    \A i, j, h \in 0..(next_key_id - 1) :
        (i < j /\ j < h
            /\ key_metadata[i].namespace_name = key_metadata[h].namespace_name)
            => key_metadata[j].namespace_name = key_metadata[i].namespace_name

\* C16: with the keys of every namespace registered next to each other,
\* save() performs exactly one open/close cycle per namespace that has a
\* dirty key, and every open is closed before the next one.
C16_BatchGrouping ==
    (last.op = "save" /\ RegisteredContiguously) =>
        /\ Count(last.log, "begin") = Cardinality(DirtyNamespaces)
        /\ Count(last.log, "end") = Cardinality(DirtyNamespaces)
        /\ \A ns \in DirtyNamespaces :
               Cardinality({i \in DOMAIN last.log :
                               last.log[i][1] = "begin" /\ last.log[i][2] = ns}) = 1
        /\ \A i \in DOMAIN last.log :
               last.log[i][1] = "begin" =>
                   \E j \in DOMAIN last.log :
                       /\ j > i
                       /\ last.log[j] = <<"end", last.log[i][2]>>
                       /\ \A h \in (i + 1)..(j - 1) :
                              last.log[h][1] \notin {"begin", "end"}

\* C16 witness: three dirty keys in two namespaces, registered with the
\* keys of each namespace together, committed with two open/close pairs.
C16_Witness ==
    /\ last.op = "save"
    /\ RegisteredContiguously
    /\ Cardinality(DirtyIds(PreMachine)) = 3
    /\ Cardinality(DirtyNamespaces) = 2
    /\ Count(last.log, "begin") = 2
    /\ Count(last.log, "end") = 2

\* Declared key k has been used, so the registry holds it.
Registered(k) == key_id[k] # NoId

\* C17: after factoryReset(), for every registered key the next get returns
\* the declared default, and isDirty and isModified are false, asked first
\* or after that get.
C17_ResetRestoresDefaults ==
    last.op = "factoryReset" =>
        \A k \in Keys :
            Registered(k) =>
                LET m == get(Machine, k, TRUE)
                IN /\ m.ret = decl[k].default_value
                   /\ isDirty(m, k, TRUE).ret = 0
                   /\ isModified(m, k, TRUE).ret = 0
                   /\ isDirty(Machine, k, TRUE).ret = 0
                   /\ isModified(Machine, k, TRUE).ret = 0

\* C17 witness: factoryReset() ran while a key held a committed value other
\* than its default in the flash and a dirty value in the cache.
C17_Witness ==
    /\ last.op = "factoryReset"
    /\ \E k \in Keys :
           /\ WasDirty(k)
           /\ PreEntryOf(k).value.v # decl[k].default_value
           /\ last.pre.nvs[SlotOf(k)] # Absent
           /\ last.pre.nvs[SlotOf(k)].v # decl[k].default_value
           /\ get(Machine, k, TRUE).ret = decl[k].default_value

\* C18: after factoryReset() the flash holds no key in any namespace that
\* has a registered key, and the entry of every registered key is
\* uninitialized with nvs_value empty and dirty false, its value field being
\* what it was before the call.
C18_ResetEffect ==
    last.op = "factoryReset" =>
        /\ \A s \in Slots :
               (\E k \in Keys : Registered(k) /\ decl[k].namespace_name = s[1])
                   => nvs[s] = Absent
        /\ \A k \in Keys :
               Registered(k) =>
                   /\ ~is_initialized(EntryOf(k))
                   /\ EntryOf(k).nvs_value = nullopt
                   /\ ~EntryOf(k).dirty
                   /\ EntryOf(k).value = PreEntryOf(k).value

\* C18 witness: factoryReset() emptied a flash slot that held a value and
\* left a value other than the default in the entry's value field.
C18_Witness ==
    /\ last.op = "factoryReset"
    /\ \E k \in Keys :
           /\ Registered(k)
           /\ last.pre.nvs[SlotOf(k)] # Absent
           /\ nvs[SlotOf(k)] = Absent
           /\ is_initialized(PreEntryOf(k))
           /\ EntryOf(k).value.v # decl[k].default_value
           /\ ~is_initialized(EntryOf(k))

\* C19: isModified(key) is (value # default): in every state, for every key,
\* whatever the dirty flag, nvs_value and the flash hold (an uninitialized
\* key is loaded by the call first).
C19_IsModifiedIsDifference ==
    /\ \A k \in Keys :
           LET m == isModified(Machine, k, TRUE)
           IN /\ m.ret = (IF m.cache_entries[m.key_id[k]].value.v # decl[k].default_value
                          THEN 1 ELSE 0)
              /\ m.ret = (IF get(Machine, k, TRUE).ret # decl[k].default_value
                          THEN 1 ELSE 0)
              /\ (Registered(k) /\ is_initialized(EntryOf(k)))
                     => m.ret = (IF EntryOf(k).value.v # decl[k].default_value
                                 THEN 1 ELSE 0)
    /\ last.op = "isModified" =>
           last.ret = (IF EntryOf(last.k).value.v # decl[last.k].default_value
                       THEN 1 ELSE 0)

\* C19 witness: isModified returned false for a dirty key set back to its
\* default while the flash and nvs_value hold another value.
C19_Witness ==
    /\ last.op = "isModified"
    /\ last.ret = 0
    /\ EntryOf(last.k).dirty
    /\ EntryOf(last.k).nvs_value # nullopt
    /\ EntryOf(last.k).nvs_value.v # decl[last.k].default_value
    /\ nvs[SlotOf(last.k)] # Absent
    /\ nvs[SlotOf(last.k)].v # decl[last.k].default_value

\* The last call tried to open namespace ns for writing and the open failed.
OpenFailed(ns) ==
    \E i \in DOMAIN last.log : last.log[i] = <<"begin", ns, FALSE, FALSE>>

\* C20: when the write open of a namespace fails during a commit, no put
\* or remove of that pass takes effect, the flash is unchanged, and every
\* dirty entry of that namespace covered by the commit keeps its dirty flag
\* and its nvs_value.
C20_WriteOpenFailure ==
    \A k \in Keys :
        (CommitOf(k) /\ WasDirty(k) /\ OpenFailed(decl[k].namespace_name))
            => /\ StoreUntouched
               /\ \A i \in DOMAIN last.log :
                      last.log[i][1] \in {"put", "remove"} => ~last.log[i][4]
               /\ EntryOf(k).dirty
               /\ EntryOf(k).nvs_value = PreEntryOf(k).nvs_value

\* The registry indexes in use when the last call started (enumeration does
\* not register anything).
RegisteredIds == 0..(next_key_id - 1)

\* C21: forEach makes one callback per registered key, in registry order:
\* call number i + 1 carries the namespace, key name, index i and the
\* initialized and dirty flags of entry i; no cache entry and nothing in
\* the flash changes, and with no key registered there is no callback.
C21_ForEach ==
    last.op = "forEach" =>
        /\ Len(last.ret) = next_key_id
        /\ \A i \in RegisteredIds :
               last.ret[i + 1] =
                   [namespace_name |-> key_metadata[i].namespace_name,
                    key_name |-> key_metadata[i].key_name,
                    index |-> i,
                    is_initialized |-> last.pre.cache_entries[i].nvs_value # nullopt,
                    is_dirty |-> last.pre.cache_entries[i].dirty]
        /\ \A k \in Keys :
               Registered(k) =>
                   /\ last.ret[key_id[k] + 1].namespace_name = decl[k].namespace_name
                   /\ last.ret[key_id[k] + 1].key_name = decl[k].key_name
        /\ cache_entries = last.pre.cache_entries
        /\ key_id = last.pre.key_id
        /\ StoreUntouched
        /\ last.log = <<>>
        /\ (\A k \in Keys : ~Registered(k)) => last.ret = <<>>

\* C21 witness: forEach reported two registered keys, the first clean and
\* the second dirty.
C21_Witness ==
    /\ last.op = "forEach"
    /\ Len(last.ret) = 2
    /\ last.ret[1].is_initialized /\ ~last.ret[1].is_dirty
    /\ last.ret[2].is_dirty
    /\ last.ret[1].index = 0 /\ last.ret[2].index = 1

\* C22: forEachInNamespace(ns, cb) makes one callback for each registered
\* key whose namespace is ns, in registry order, and none for any other key.
C22_ForEachInNamespace ==
    last.op = "forEachInNamespace" =>
        LET ids == {i \in RegisteredIds : key_metadata[i].namespace_name = last.v}
        IN /\ Len(last.ret) = Cardinality(ids)
           /\ \A i \in ids : \E c \in DOMAIN last.ret : last.ret[c] = PrefInfo(Machine, i)
           /\ \A c \in DOMAIN last.ret : last.ret[c].index \in ids
           /\ \A c, d \in DOMAIN last.ret :
                  c < d => last.ret[c].index < last.ret[d].index
           /\ cache_entries = last.pre.cache_entries
           /\ StoreUntouched

\* C22 witness: two keys of different namespaces are registered and the
\* enumeration of one namespace reported exactly the key that is in it.
C22_Witness ==
    /\ last.op = "forEachInNamespace"
    /\ next_key_id = 2
    /\ key_metadata[0].namespace_name # key_metadata[1].namespace_name
    /\ Len(last.ret) = 1
    /\ last.ret[1].namespace_name = last.v
    /\ last.ret[1].index = 1

\* C23: however many keys are used, every index handed out by register_key
\* is below MAX_KEYS, the counter never passes MAX_KEYS, and the two arrays
\* keep exactly the indexes 0..MAX_KEYS-1.
C23_CapacitySafety ==
    /\ next_key_id <= MAX_KEYS
    /\ \A k \in Keys :
           /\ key_id[k] \in {NoId} \cup 0..(MAX_KEYS - 1)
           /\ LET r == register_key(Machine, decl[k].namespace_name, decl[k].key_name)
              IN /\ r.ret \in 0..(MAX_KEYS - 1)
                 /\ r.next_key_id <= MAX_KEYS
                 /\ DOMAIN r.key_metadata = 0..(MAX_KEYS - 1)
    /\ DOMAIN cache_entries = 0..(MAX_KEYS - 1)
    /\ DOMAIN key_metadata = 0..(MAX_KEYS - 1)

\* C23 witness: more keys than MAX_KEYS have been used and each has an index.
C23_Witness ==
    /\ Len(decl) > MAX_KEYS
    /\ \A k \in Keys : Registered(k) /\ key_id[k] < MAX_KEYS
    /\ next_key_id = MAX_KEYS

\* C24: a key gets its index at its first use and keeps it in every later
\* call until the power cycle, and no two distinct keys have the same index.
C24_KeyIdentity ==
    /\ last.op # "reboot" =>
           \A k \in Keys :
               last.pre.key_id[k] # NoId => key_id[k] = last.pre.key_id[k]
    /\ (last.op \in {"get", "set", "isDirty", "isModified", "save_key"})
           => Registered(last.k)
    /\ \A j, k \in Keys :
           (j # k /\ Registered(j) /\ Registered(k)) => key_id[j] # key_id[k]

\* C25: in every state an entry that is not initialized is not dirty.
C25_UninitializedIsClean ==
    \A i \in 0..(MAX_KEYS - 1) :
        ~is_initialized(cache_entries[i]) => ~cache_entries[i].dirty

\* C25 witness: an entry that was initialized and dirty has just become
\* uninitialized, and it is not dirty.
C25_Witness ==
    /\ last.op \in {"factoryReset", "save_key"}
    /\ \E k \in Keys :
           /\ WasDirty(k)
           /\ ~is_initialized(EntryOf(k))
           /\ ~EntryOf(k).dirty

\* C26: between calls, an entry whose nvs_value holds p has exactly p in the
\* flash under its key's namespace and name.
C26_PersistedIsStored ==
    \A k \in Keys :
        (Registered(k) /\ EntryOf(k).nvs_value # nullopt)
            => nvs[SlotOf(k)] = Stored(decl[k].value_type, EntryOf(k).nvs_value.v)

\* Store traffic in which every successful open is closed before the next
\* open and before the end, and every put, remove and clear that takes
\* effect happens inside such a session, in the namespace that is open.
SessionDiscipline(log) ==
    /\ \A i \in DOMAIN log :
           (log[i][1] = "begin" /\ log[i][4]) =>
               \E j \in DOMAIN log :
                   /\ j > i
                   /\ log[j] = <<"end", log[i][2]>>
                   /\ \A h \in (i + 1)..(j - 1) : log[h][1] \notin {"begin", "end"}
    /\ \A j \in DOMAIN log :
           log[j][1] = "end" =>
               \E i \in DOMAIN log :
                   /\ i < j
                   /\ log[i] = <<"begin", log[j][2], FALSE, TRUE>>
                   /\ \A h \in (i + 1)..(j - 1) : log[h][1] \notin {"begin", "end"}
    /\ \A h \in DOMAIN log :
           (log[h][1] \in {"put", "remove", "clear"} /\ log[h][Len(log[h])]) =>
               \E i \in DOMAIN log :
                   /\ i < h
                   /\ log[i] = <<"begin", log[h][2], FALSE, TRUE>>
                   /\ \A g \in (i + 1)..(h - 1) : log[g][1] \notin {"begin", "end"}

\* C27: in every call at most one namespace is open at a time, every open
\* is closed before the next open and before the call returns, so between
\* calls no namespace is open.
C27_SessionDiscipline ==
    /\ SessionDiscipline(last.log)
    /\ \A k \in Keys :
           /\ ~get(Machine, k, TRUE).prefs.started
           /\ ~save_key(Machine, k, TRUE, TRUE).prefs.started
    /\ ~save(Machine, TRUE, TRUE).prefs.started
    /\ ~factoryReset(Machine, TRUE).prefs.started

\* C27 witness: a factoryReset that opened and closed two namespaces in turn.
C27_Witness ==
    /\ last.op = "factoryReset"
    /\ Count(last.log, "begin") = 2
    /\ Count(last.log, "end") = 2
    /\ Count(last.log, "clear") = 2
    /\ SessionDiscipline(last.log)

RunStarts ==
    LET D == DirtyIds(PreMachine)
    IN {i \in D :
           \A j \in D :
               (j < i /\ \A h \in D : ~(j < h /\ h < i))
                   => key_metadata[j].namespace_name # key_metadata[i].namespace_name}

IsBegin(e) == e[1] = "begin"

IsPut(e) == e[1] = "put"

C30_WriteOrder ==
    last.op = "save" =>
        LET puts == SelectSeq(last.log, IsPut)
            D == DirtyIds(PreMachine)
            IdOf(e) == CHOOSE i \in 0..(MAX_KEYS - 1) :
                           key_metadata[i].key_name = e[3]
        IN /\ \A c \in DOMAIN puts :
                  /\ IdOf(puts[c]) \in D
                  /\ puts[c][2] = key_metadata[IdOf(puts[c])].namespace_name
                  /\ puts[c][4]
           /\ \A c, d \in DOMAIN puts :
                  c < d => IdOf(puts[c]) < IdOf(puts[d])
           /\ SessionDiscipline(last.log)

\* C30 witness: save() wrote three keys registered as ns1, ns2, ns1.
C30_Witness ==
    /\ last.op = "save"
    /\ Cardinality(RunStarts) = 3
    /\ Len(SelectSeq(last.log, IsPut)) = 3
    /\ \A k \in Keys : nvs[SlotOf(k)] = Stored(decl[k].value_type, EntryOf(k).value.v)

\* C31: a load tells a key that is absent from the flash from a key stored
\* with its default value: the first leaves nvs_value empty, the second
\* leaves nvs_value = default.
C31_AbsentVersusDefault ==
    (last.op = "get" /\ ~is_initialized(PreEntryOf(last.k))) =>
        LET d == decl[last.k].default_value
            T == decl[last.k].value_type
        IN /\ last.pre.nvs[SlotOf(last.k)] = Absent
                  => EntryOf(last.k).nvs_value = nullopt
           /\ last.pre.nvs[SlotOf(last.k)] = Stored(T, d)
                  => EntryOf(last.k).nvs_value = Val(T, d)

\* C32: a set(k, v) of an uninitialized key whose flash slot holds p loads
\* p first (nvs_value = p) and leaves the key clean when v = p and dirty
\* when v # p.
C32_FirstSetAgainstStore ==
    (last.op = "set" /\ ~is_initialized(PreEntryOf(last.k))
        /\ last.pre.nvs[SlotOf(last.k)] # Absent)
        => LET p == last.pre.nvs[SlotOf(last.k)].v
           IN /\ EntryOf(last.k).nvs_value = Val(decl[last.k].value_type, p)
              /\ EntryOf(last.k).dirty = (last.v # p)

\* The last call issued a put for key k inside an open session and the put
\* wrote nothing.
PutFailed(k) ==
    \E i \in DOMAIN last.log :
        last.log[i] = <<"put", decl[k].namespace_name, decl[k].key_name, FALSE>>

\* C33: when the put of a key fails during a commit, the entry keeps its
\* dirty flag and its nvs_value.
C33_PutFailure ==
    \A k \in Keys :
        (CommitOf(k) /\ WasDirty(k) /\ PutFailed(k))
            => /\ nvs[SlotOf(k)] = last.pre.nvs[SlotOf(k)]
               /\ EntryOf(k).dirty
               /\ EntryOf(k).nvs_value = PreEntryOf(k).nvs_value

\* Key k was registered while the registry still had room: the metadata at
\* its index is its own.
WithinCapacity(k) ==
    /\ Registered(k)
    /\ key_metadata[key_id[k]] =
           [namespace_name |-> decl[k].namespace_name, key_name |-> decl[k].key_name]

\* The last call was the first use of its key, made when MAX_KEYS keys were
\* already registered.
RegisteredPastCapacity ==
    /\ last.op \in {"get", "set", "isModified", "isDirty", "save_key"}
    /\ last.pre.key_id[last.k] = NoId
    /\ Cardinality({j \in Keys : last.pre.key_id[j] # NoId}) >= MAX_KEYS

\* C34: a key registered past the capacity gets an index that no key
\* registered within capacity has, and its registration changes neither
\* next_key_id nor the metadata recorded for the other keys.
C34_ReservedSlot ==
    RegisteredPastCapacity =>
        /\ \A j \in Keys \ {last.k} :
               WithinCapacity(j) => key_id[j] # key_id[last.k]
        /\ next_key_id = MAX_KEYS
        /\ Cardinality({j \in Keys \ {last.k} : WithinCapacity(j)}) = MAX_KEYS

\* C35: save(key) of a dirty key that holds its default and is not in the
\* flash issues a remove that changes nothing in the flash, and ends with
\* nvs_value empty and dirty false.
C35_RemoveAbsent ==
    (last.op = "save_key" /\ WasDirty(last.k)
        /\ PreEntryOf(last.k).value.v = decl[last.k].default_value
        /\ last.pre.nvs[SlotOf(last.k)] = Absent)
        => /\ \E i \in DOMAIN last.log :
                  last.log[i] = <<"remove", decl[last.k].namespace_name,
                                  decl[last.k].key_name, TRUE>>
           /\ StoreUntouched
           /\ EntryOf(last.k).nvs_value = nullopt
           /\ ~EntryOf(last.k).dirty
           /\ last.log[Len(last.log)] = <<"end", decl[last.k].namespace_name>>

\* C35 witness: save(key) has removed a key that was not in the flash.
C35_Witness ==
    /\ last.op = "save_key"
    /\ WasDirty(last.k)
    /\ PreEntryOf(last.k).value.v = decl[last.k].default_value
    /\ last.pre.nvs[SlotOf(last.k)] = Absent
    /\ Count(last.log, "remove") = 1
    /\ nvs[SlotOf(last.k)] = Absent
    /\ EntryOf(last.k).nvs_value = nullopt

\* C36: in every state, for every initialized entry, dirty is exactly
\* (value # baseline), the baseline being nvs_value when it is present and
\* the default otherwise.
C36_DirtyExact ==
    \A k \in Keys :
        (Registered(k) /\ is_initialized(EntryOf(k))) =>
            LET baseline == IF EntryOf(k).nvs_value # nullopt
                            THEN EntryOf(k).nvs_value.v
                            ELSE decl[k].default_value
            IN EntryOf(k).dirty = (EntryOf(k).value.v # baseline)

\* The machine after a power cycle: static state value-initialised, flash kept.
RebootMachine ==
    [Machine EXCEPT !.key_id = [k \in Keys |-> NoId],
                    !.next_key_id = 0,
                    !.key_metadata = [i \in 0..(MAX_KEYS - 1) |-> KeyMetadata],
                    !.cache_entries = [i \in 0..(MAX_KEYS - 1) |-> CacheEntry]]

\* C37: in every state, for every initialized entry that is not dirty, a
\* power cycle followed by get returns the entry's value: the value is what
\* the flash holds for the key, or the default when it holds nothing.
C37_CleanIsDurable ==
    \A k \in Keys :
        (Registered(k) /\ is_initialized(EntryOf(k)) /\ ~EntryOf(k).dirty) =>
            /\ get(RebootMachine, k, TRUE).ret = EntryOf(k).value.v
            /\ EntryOf(k).value.v = (IF nvs[SlotOf(k)] # Absent
                                     THEN nvs[SlotOf(k)].v
                                     ELSE decl[k].default_value)

\* C38: get, set, isDirty, isModified and save(key) on a key leave the
\* cache entry and the flash slot of every other registered key as they
\* were.
C38_KeyIsolation ==
    last.op \in {"get", "set", "isDirty", "isModified", "save_key"} =>
        \A b \in Keys \ {last.k} :
            last.pre.key_id[b] # NoId =>
                /\ EntryOf(b) = PreEntryOf(b)
                /\ nvs[SlotOf(b)] = last.pre.nvs[SlotOf(b)]

\* C39: a commit issued right after a commit, with no set in between,
\* causes no store traffic: after save(key) a second save(key), and after
\* save() a second save() or a save(key) of any key.
C39_CommitIdempotent ==
    /\ last.op = "save_key" =>
           save_key(Machine, last.k, TRUE, TRUE).log = <<>>
    /\ last.op = "save" =>
           /\ save(Machine, TRUE, TRUE).log = <<>>
           /\ \A k \in Keys : save_key(Machine, k, TRUE, TRUE).log = <<>>

\* C39 witness: a commit that wrote to the flash, after which a second
\* commit does nothing.
C39_Witness ==
    /\ last.op \in {"save_key", "save"}
    /\ Count(last.log, "put") >= 1
    /\ nvs # last.pre.nvs
    /\ save(Machine, TRUE, TRUE).log = <<>>

====
